---- MODULE Spec2Model ----
(***************************************************************************)
(* Model of the thread-safe logger of logging.hpp: the process-wide State  *)
(* singleton (four atomics), the LOG_* macros, log_impl with its static    *)
(* output_mutex, and std::cerr as the shared sink.                         *)
(*                                                                         *)
(* Every atomic load or store, the mutex acquisition and release, and      *)
(* every chunk handed to std::cerr is one step; thread-local code between  *)
(* two such accesses is folded into the step of the access that follows.   *)
(***************************************************************************)
EXTENDS Integers, Sequences, FiniteSets, TLC

\* ------------------------------------------------------------------ bounds
NumThreads == 2
\* macro calls the threads of a stress program make in all
MaxCalls == 2
\* calls (macro calls, set_level, get_level) a levels program makes in all
LevelOps == 2
\* calls (macro calls, setter calls) a format program makes in all
FormatOps == 3
\* calls of format_timestamp a clock program makes in all
ClockCalls == 2
\* calls of get_colour_code and get_level_name a table program makes in all
TableCalls == 2

Threads == 1..NumThreads

\* ------------------------------------------------------------ enum Level
TRACE == 0
DEBUG == 1
INFO == 2
WARN == 3
ERROR == 4
FATAL == 5

Level == {TRACE, DEBUG, INFO, WARN, ERROR, FATAL}

\* values an object of type Level (an enum class over int) can hold: the
\* enumerators, and other integers by way of static_cast
LevelValues == Level \cup {-1, 6, 7, 255}

\* ANSI escape introducer (the byte 033 followed by '[')
ESC == "<ESC>["

get_colour_code(level) ==
  CASE level = TRACE -> "90"
    [] level = DEBUG -> "36"
    [] level = INFO -> "37"
    [] level = WARN -> "33"
    [] level = ERROR -> "31"
    [] level = FATAL -> "41;97"
    [] OTHER -> "37"

\* a get_level_name whose switch has no default label
get_level_name_nodefault(level) ==
  CASE level = TRACE -> "TRACE"
    [] level = DEBUG -> "DEBUG"
    [] level = INFO -> "INFO"
    [] level = WARN -> "WARN"
    [] level = ERROR -> "ERROR"
    [] level = FATAL -> "FATAL"
    [] OTHER -> ""

get_level_name(level) ==
  CASE level = TRACE -> "TRACE"
    [] level = DEBUG -> "DEBUG"
    [] level = INFO -> "INFO"
    [] level = WARN -> "WARN"
    [] level = ERROR -> "ERROR"
    [] level = FATAL -> "FATAL"
    [] OTHER -> "UNKNOWN"

\* ------------------------------------------------------- message parts
\* A message part is a value of some type with an operator<<.  kind "str"
\* is a string, "int" an integer, "bad" a user type whose operator<< throws.
StrPart(s) == [kind |-> "str", str |-> s, num |-> 0]
IntPart(n) == [kind |-> "int", str |-> "", num |-> n]
BadPart == [kind |-> "bad", str |-> "", num |-> 0]

\* the argument lists the callers of a stress program pass to the macros
ArgLists == {<<StrPart("hello")>>,
             <<StrPart("n="), IntPart(7)>>,
             <<StrPart("v="), BadPart>>}

\* operator<<(ostream, part): the text a part is converted to
ToText(p) == IF p.kind = "int" THEN ToString(p.num) ELSE p.str

Throws(p) == p.kind = "bad"

\* index of the first part whose conversion throws, 0 if none
RECURSIVE FirstThrow(_, _)
FirstThrow(args, i) ==
  IF i > Len(args) THEN 0
  ELSE IF Throws(args[i]) THEN i
  ELSE FirstThrow(args, i + 1)

\* (buffer << ... << args): left fold of operator<< over the first n parts
RECURSIVE Fold(_, _, _)
Fold(buf, args, n) ==
  IF n = 0 THEN buf
  ELSE Fold(buf, args, n - 1) \o ToText(args[n])

\* the call site of thread t's macro calls (__FILE__, __LINE__)
FileOf(t) == "x.cpp"
LineOf(t) == 41 + t

\* ------------------------------------------------------------- clock
\* milliseconds since the epoch that system_clock::now() may return
ClockValues == {86400007}

\* clock values a program that calls format_timestamp may meet: the epoch,
\* values around the carries of the millisecond, second, minute, hour and
\* day fields, and the widths of the millisecond field
ClockSamples == {0, 7, 10, 99, 100, 999, 1000, 59999, 60000, 3599999,
                 3600000, 86399999, 86400000, 86400007, 863999999}

Pad(n, w) ==
  IF w = 3 /\ n < 10 THEN "00" \o ToString(n)
  ELSE IF w = 3 /\ n < 100 THEN "0" \o ToString(n)
  ELSE IF w = 2 /\ n < 10 THEN "0" \o ToString(n)
  ELSE ToString(n)

\* std::put_time(localtime(t), "%Y-%m-%d %H:%M:%S") for a time in the first
\* month of the epoch year, local time taken as UTC
put_time(secs) ==
  "1970-01-" \o Pad(1 + (secs \div 86400), 2) \o " "
    \o Pad((secs % 86400) \div 3600, 2) \o ":"
    \o Pad((secs % 3600) \div 60, 2) \o ":"
    \o Pad(secs % 60, 2)

\* a millisecond field written without setfill('0')
format_timestamp_nofill(now) ==
  put_time(now \div 1000) \o "." \o ToString(now % 1000)

format_timestamp(now) ==
  put_time(now \div 1000) \o "." \o Pad(now % 1000, 3)

\* ss << std::this_thread::get_id()
get_thread_id(t) == "T" \o ToString(t)

\* ------------------------------------------------------------- state
VARIABLES
  current_level,      \* State::current_level
  include_location,   \* State::include_location
  include_thread_id,  \* State::include_thread_id
  use_colours,        \* State::use_colours
  output_mutex,       \* log_impl's static mutex: 0 or the holding thread
  cerr_buf,           \* chunks inserted into std::cerr and not yet flushed
  stderr_out,         \* chunks delivered to the standard error stream
  cerr_state,         \* "good", or "bad" once a write has failed (badbit)
  stream_,            \* ThreadLocalBuffer::stream_ of each thread
  pc,                 \* where each thread is
  frame,              \* the locals of each thread's current call
  calls,              \* number of macro calls each thread has started
  sets,               \* number of setter calls made so far
  gets,               \* number of get_level calls made so far
  crashed,            \* the process was killed by a trap
  scenario,           \* the kind of program that drives the logger
  build,              \* what get() yields in this build of the program
  last_store,         \* history: <<v>> for the value v last stored to each
                      \* field, <<>> for a field never stored to
  returned            \* history: the calls that returned normally

config == <<current_level, include_location, include_thread_id, use_colours>>
sink == <<output_mutex, cerr_buf, stderr_out, cerr_state>>
vars == <<config, sink, stream_, pc, frame, calls, sets, gets, crashed, scenario,
          build,
          last_store, returned>>

NoThread == 0
None == "none"

\* the locals of a thread that is not inside a call
NoFrame ==
  [level |-> INFO, args |-> <<>>, enabled |-> FALSE, evaluated |-> FALSE,
   buffer |-> None, message |-> "", use_colours |-> FALSE,
   log_line |-> <<>>, pos |-> 0, touched |-> {}, ret |-> INFO, now |-> 0,
   snapshots |-> {}]

\* what flowing off the end of ThreadLocalBuffer::get() (no return statement)
\* can yield: a reference that happens to be stream_, a reference to other
\* memory, a trap, or control that runs on into other code and never comes
\* back.  The compiler settles which when it builds the program.
GetOutcomes == {"stream_", "junk", "trap", "loop"}

\* what reading a stringstream at an unrelated address can yield
JunkText == "<junk>"

\* The driving programs.  A "stress" program (test1..test5 of examples.cpp)
\* has all its threads log concurrently under the configuration it started
\* with; a "levels" program also calls set_level and get_level while its
\* threads log at any severity; a "format" program also calls
\* set_include_location, set_include_thread_id and set_use_colours while
\* its threads log.
Scenarios == {"stress", "levels", "format"}

\* the severities the macro calls of a stress program use
StressLevels == {DEBUG, INFO}

\* the severities the macro calls of a format program use
FormatLevels == {INFO}

CallLevels ==
  CASE scenario = "stress" -> StressLevels
    [] scenario = "levels" -> Level
    [] scenario = "format" -> FormatLevels
CallArgs == IF scenario = "stress" THEN ArgLists ELSE {<<StrPart("hello")>>}

RECURSIVE SumTo(_, _)
SumTo(f, n) == IF n = 0 THEN 0 ELSE f[n] + SumTo(f, n - 1)

\* the program has calls left to make
MaxOps ==
  CASE scenario = "stress" -> MaxCalls
    [] scenario = "levels" -> LevelOps
    [] scenario = "format" -> FormatOps
    [] scenario = "clock" -> ClockCalls
    [] scenario = "table" -> TableCalls

MayCall == SumTo(calls, NumThreads) + sets + gets < MaxOps

\* a setter may be called
\* setters that wait until output_mutex is free
MaySet_locking(t, sc) ==
  /\ ~crashed /\ pc[t] = "idle" /\ scenario = sc /\ MayCall
  /\ output_mutex = NoThread

MaySet(t, sc) ==
  ~crashed /\ pc[t] = "idle" /\ scenario = sc /\ MayCall

\* get_level may be called
MayGet(t) == ~crashed /\ pc[t] = "idle" /\ scenario = "levels" /\ MayCall

Fields == {"current_level", "include_location", "include_thread_id",
           "use_colours"}

\* a State whose include_location starts out true
Init_with_location ==
  /\ current_level = INFO
  /\ include_location = TRUE
  /\ include_thread_id = TRUE
  /\ use_colours = TRUE
  /\ output_mutex = NoThread
  /\ cerr_buf = <<>>
  /\ stderr_out = <<>>
  /\ cerr_state = "good"
  /\ stream_ = [t \in Threads |-> ""]
  /\ pc = [t \in Threads |-> "idle"]
  /\ frame = [t \in Threads |-> NoFrame]
  /\ calls = [t \in Threads |-> 0]
  /\ sets = 0
  /\ gets = 0
  /\ crashed = FALSE
  /\ scenario \in Scenarios
  /\ build \in GetOutcomes
  /\ last_store = [f \in Fields |-> <<>>]
  /\ returned = {}

Init ==
  /\ current_level = INFO
  /\ include_location = FALSE
  /\ include_thread_id = TRUE
  /\ use_colours = TRUE
  /\ output_mutex = NoThread
  /\ cerr_buf = <<>>
  /\ stderr_out = <<>>
  /\ cerr_state = "good"
  /\ stream_ = [t \in Threads |-> ""]
  /\ pc = [t \in Threads |-> "idle"]
  /\ frame = [t \in Threads |-> NoFrame]
  /\ calls = [t \in Threads |-> 0]
  /\ sets = 0
  /\ gets = 0
  /\ crashed = FALSE
  /\ scenario \in Scenarios
  /\ build \in GetOutcomes
  /\ last_store = [f \in Fields |-> <<>>]
  /\ returned = {}

\* the call a thread is in
CallOf(t) == <<t, calls[t]>>

\* the positions of a thread inside the block that holds the lock_guard
CriticalSection == {"write", "flush", "unlock"}

\* the formatting flags as they stand
Flags == <<use_colours, include_thread_id, include_location>>

\* the formatting flags once v has been stored to field f
FlagsWith(f, v) ==
  <<IF f = "use_colours" THEN v ELSE use_colours,
    IF f = "include_thread_id" THEN v ELSE include_thread_id,
    IF f = "include_location" THEN v ELSE include_location>>

\* history: a setter stored v to field f while these threads were inside a
\* call ("locked": while the thread held output_mutex); snapshots collects
\* the values the formatting flags held together at some instant of the call
Touch(f, v) ==
  [t \in Threads |->
     IF pc[t] \in {"idle", "got"} THEN frame[t]
     ELSE [frame[t] EXCEPT
             !.touched =
               @ \cup {f} \cup (IF output_mutex = t THEN {"locked"} ELSE {}),
             !.snapshots = @ \cup {FlagsWith(f, v)}]]

\* ------------------------------------------------- configuration functions
set_level(t, level) ==
  /\ MaySet(t, "levels")
  /\ current_level' = level
  /\ last_store' = [last_store EXCEPT !["current_level"] = <<level>>]
  /\ frame' = Touch("current_level", level)
  /\ sets' = sets + 1
  /\ UNCHANGED <<scenario, build, gets, include_location, include_thread_id, use_colours, sink,
                 stream_, pc, calls, crashed, returned>>

set_include_location(t, enable) ==
  /\ MaySet(t, "format")
  /\ include_location' = enable
  /\ last_store' = [last_store EXCEPT !["include_location"] = <<enable>>]
  /\ frame' = Touch("include_location", enable)
  /\ sets' = sets + 1
  /\ UNCHANGED <<scenario, build, gets, current_level, include_thread_id, use_colours, sink,
                 stream_, pc, calls, crashed, returned>>

\* a set_include_thread_id that stores to include_location as well
set_include_thread_id_clobber(t, enable) ==
  /\ MaySet(t, "format")
  /\ include_thread_id' = enable
  /\ include_location' = enable
  /\ last_store' = [last_store EXCEPT !["include_thread_id"] = <<enable>>]
  /\ frame' = Touch("include_thread_id", enable)
  /\ sets' = sets + 1
  /\ UNCHANGED <<scenario, build, gets, current_level, use_colours, sink,
                 stream_, pc, calls, crashed, returned>>

set_include_thread_id(t, enable) ==
  /\ MaySet(t, "format")
  /\ include_thread_id' = enable
  /\ last_store' = [last_store EXCEPT !["include_thread_id"] = <<enable>>]
  /\ frame' = Touch("include_thread_id", enable)
  /\ sets' = sets + 1
  /\ UNCHANGED <<scenario, build, gets, current_level, include_location, use_colours, sink,
                 stream_, pc, calls, crashed, returned>>

set_use_colours(t, enable) ==
  /\ MaySet(t, "format")
  /\ use_colours' = enable
  /\ last_store' = [last_store EXCEPT !["use_colours"] = <<enable>>]
  /\ frame' = Touch("use_colours", enable)
  /\ sets' = sets + 1
  /\ UNCHANGED <<scenario, build, gets, current_level, include_location, include_thread_id, sink,
                 stream_, pc, calls, crashed, returned>>

get_level(t) ==
  /\ MayGet(t)
  /\ pc' = [pc EXCEPT ![t] = "got"]
  /\ frame' = [frame EXCEPT ![t] = [NoFrame EXCEPT !.ret = current_level]]
  /\ gets' = gets + 1
  /\ UNCHANGED <<scenario, build, config, sink, stream_, calls, sets, crashed, last_store,
                 returned>>

\* the caller consumes the value get_level returned
Resume(t) ==
  /\ ~crashed /\ pc[t] = "got"
  /\ pc' = [pc EXCEPT ![t] = "idle"]
  /\ frame' = [frame EXCEPT ![t] = NoFrame]
  /\ UNCHANGED <<scenario, build, config, sink, stream_, calls, sets, gets, crashed, last_store,
                 returned>>

\* a program calls format_timestamp() itself: now is what the clock returns,
\* the string comes back in message
call_format_timestamp(t, now) ==
  /\ ~crashed /\ pc[t] = "idle" /\ scenario = "clock" /\ MayCall
  /\ pc' = [pc EXCEPT ![t] = "got"]
  /\ frame' = [frame EXCEPT ![t] =
       [NoFrame EXCEPT !.now = now, !.message = format_timestamp(now)]]
  /\ gets' = gets + 1
  /\ UNCHANGED <<scenario, build, config, sink, stream_, calls, sets,
                 crashed, last_store, returned>>

\* a program calls get_colour_code(level) itself: the code comes back in
\* log_line
call_get_colour_code(t, level) ==
  /\ ~crashed /\ pc[t] = "idle" /\ scenario = "table" /\ MayCall
  /\ pc' = [pc EXCEPT ![t] = "got"]
  /\ frame' = [frame EXCEPT ![t] =
       [NoFrame EXCEPT !.level = level,
                       !.log_line = <<get_colour_code(level)>>]]
  /\ gets' = gets + 1
  /\ UNCHANGED <<scenario, build, config, sink, stream_, calls, sets,
                 crashed, last_store, returned>>

\* a program calls get_level_name(level) itself: the name comes back in
\* message
call_get_level_name(t, level) ==
  /\ ~crashed /\ pc[t] = "idle" /\ scenario = "table" /\ MayCall
  /\ pc' = [pc EXCEPT ![t] = "got"]
  /\ frame' = [frame EXCEPT ![t] =
       [NoFrame EXCEPT !.level = level, !.message = get_level_name(level)]]
  /\ gets' = gets + 1
  /\ UNCHANGED <<scenario, build, config, sink, stream_, calls, sets,
                 crashed, last_store, returned>>

\* a strict comparison in place of is_level_enabled's
is_level_enabled_strict(level) == level > current_level

is_level_enabled(level) == level >= current_level

\* history: thread t leaves its call by a normal return, on the path "macro"
\* (the macro's check failed), "early" (log_impl's early exit) or "sink";
\* expect is the number of records a call at this severity is to write under
\* the minimum level that held throughout the call ("any" if set_level ran
\* during the call)
Return(t, path) ==
  LET s == frame[t].level
  IN
  [call |-> CallOf(t),
   level |-> s,
   path |-> path,
   expect |-> IF "current_level" \in frame[t].touched THEN "any"
              ELSE IF s >= current_level THEN "one" ELSE "none"]

\* ------------------------------------------------------------ LOG_* macros
\* if (is_level_enabled(LEVEL)): the macro's load of current_level
MacroCheck(t, level, args) ==
  /\ ~crashed /\ pc[t] = "idle" /\ MayCall
  /\ calls' = [calls EXCEPT ![t] = @ + 1]
  /\ pc' = [pc EXCEPT ![t] = "checked"]
  /\ frame' = [frame EXCEPT ![t] =
       [NoFrame EXCEPT !.level = level, !.args = args,
                       !.enabled = is_level_enabled(level),
                       !.snapshots = {Flags}]]
  /\ UNCHANGED <<scenario, build, config, sink, stream_, sets, gets, crashed, last_store, returned>>

\* a logging function in place of the macro: its arguments are evaluated
\* whatever the check returned
MacroBranch_always(t) == TRUE

\* the branch the macro takes on the result of its check
MacroBranch(t) == frame[t].enabled

\* the true branch: the argument expressions are evaluated and log_impl is
\* entered
EvalArgs(t) ==
  /\ ~crashed /\ pc[t] = "checked" /\ MacroBranch(t)
  /\ pc' = [pc EXCEPT ![t] = "log_impl"]
  /\ frame' = [frame EXCEPT ![t].evaluated = TRUE]
  /\ UNCHANGED <<scenario, build, config, sink, stream_, calls, sets, gets, crashed, last_store,
                 returned>>

\* the false branch: the macro does nothing
MacroSkip(t) ==
  /\ ~crashed /\ pc[t] = "checked" /\ ~MacroBranch(t)
  /\ pc' = [pc EXCEPT ![t] = "idle"]
  /\ returned' = returned \cup {Return(t, "macro")}
  /\ frame' = [frame EXCEPT ![t] = NoFrame]
  /\ UNCHANGED <<scenario, build, config, sink, stream_, calls, sets, gets, crashed, last_store>>

\* ---------------------------------------------------------------- log_impl
\* an early exit that also drops the calls at the minimum level itself
Disabled_inclusive(level) == level <= current_level

\* a log_impl that relies on the macro's check and has none of its own
Disabled_never(level) == FALSE

\* the condition of log_impl's early exit
Disabled(level) == level < current_level

\* a log_impl that takes output_mutex on entry, before it formats
LevelCheck_locking(t) ==
  /\ ~crashed /\ pc[t] = "log_impl" /\ output_mutex = NoThread
  /\ IF Disabled(frame[t].level)
     THEN /\ pc' = [pc EXCEPT ![t] = "idle"]
          /\ returned' = returned \cup {Return(t, "early")}
          /\ frame' = [frame EXCEPT ![t] = NoFrame]
          /\ UNCHANGED output_mutex
     ELSE /\ pc' = [pc EXCEPT ![t] = "format"]
          /\ output_mutex' = t
          /\ UNCHANGED <<frame, returned>>
  /\ UNCHANGED <<scenario, build, config, cerr_buf, stderr_out, cerr_state,
                 stream_, calls, sets, gets, crashed, last_store>>

\* the early exit of log_impl: its own load of current_level
LevelCheck(t) ==
  /\ ~crashed /\ pc[t] = "log_impl"
  /\ IF Disabled(frame[t].level)
     THEN /\ pc' = [pc EXCEPT ![t] = "idle"]
          /\ returned' = returned \cup {Return(t, "early")}
          /\ frame' = [frame EXCEPT ![t] = NoFrame]
     ELSE /\ pc' = [pc EXCEPT ![t] = "format"]
          /\ UNCHANGED <<frame, returned>>
  /\ UNCHANGED <<scenario, build, config, sink, stream_, calls, sets, gets, crashed, last_store>>

\* ThreadLocalBuffer::get(): stream_.clear(); stream_.str("")
get(content) == ""

\* the colour-start escape of a level
ColourStart(level) == ESC \o get_colour_code(level) \o "m"
ColourReset == ESC \o "0m"

\* the formatting of the message (get, the fold, buffer.str()) and the head
\* of the line up to the load of use_colours
FormatMessage(t) ==
  /\ ~crashed /\ pc[t] = "format"
  /\ stream_' = [stream_ EXCEPT ![t] =
       LET cleared == get(@)
           n == FirstThrow(frame[t].args, 1)
       IN IF build = "stream_"
          THEN Fold(cleared, frame[t].args,
                    IF n = 0 THEN Len(frame[t].args) ELSE n - 1)
          ELSE cleared]
  /\ IF build = "trap"
     THEN /\ crashed' = TRUE
          /\ UNCHANGED <<pc, frame>>
     ELSE IF build = "loop"
     THEN /\ pc' = [pc EXCEPT ![t] = "hung"]
          /\ UNCHANGED <<frame, crashed>>
     ELSE IF FirstThrow(frame[t].args, 1) # 0
     THEN \* operator<< of a part throws: the exception leaves log_impl
          /\ pc' = [pc EXCEPT ![t] = "threw"]
          /\ frame' = [frame EXCEPT ![t].buffer = build]
          /\ UNCHANGED crashed
     ELSE /\ pc' = [pc EXCEPT ![t] = "thread_id"]
          /\ frame' = [frame EXCEPT
               ![t].buffer = build,
               ![t].message = IF build = "stream_" THEN stream_'[t]
                              ELSE JunkText,
               ![t].use_colours = use_colours,
               ![t].log_line = IF use_colours
                               THEN <<ColourStart(frame[t].level)>>
                               ELSE <<>>]
          /\ UNCHANGED crashed
  /\ UNCHANGED <<scenario, build, config, sink, calls, sets, gets, last_store, returned>>

\* the caller's handler catches the exception that left the macro
Catch(t) ==
  /\ ~crashed /\ pc[t] = "threw"
  /\ pc' = [pc EXCEPT ![t] = "idle"]
  /\ frame' = [frame EXCEPT ![t] = NoFrame]
  /\ UNCHANGED <<scenario, build, config, sink, stream_, calls, sets, gets, crashed, last_store,
                 returned>>

\* a thread id bracket written without a separating space
ThreadIdPart_nospace(t) == "[" \o get_thread_id(t) \o "]"

\* the timestamp and the thread id, up to the load of include_thread_id
ThreadIdPart(t) == " [" \o get_thread_id(t) \o "]"

AppendThreadId(t, now) ==
  /\ ~crashed /\ pc[t] = "thread_id"
  /\ pc' = [pc EXCEPT ![t] = "location"]
  /\ frame' = [frame EXCEPT ![t].log_line =
       @ \o <<"[" \o format_timestamp(now) \o "]">>
         \o (IF include_thread_id THEN <<ThreadIdPart(t)>> ELSE <<>>)]
  /\ UNCHANGED <<scenario, build, config, sink, stream_, calls, sets, gets, crashed, last_store,
                 returned>>

\* a location suffix that leaves out the line number
LocationPart_fileonly(file, line) == " (" \o file \o ")"

\* the location suffix of a call site
LocationPart(file, line) == " (" \o file \o ":" \o ToString(line) \o ")"

\* a colour reset decided by a second load of State::use_colours
UseColours_reloaded(t) == use_colours

\* the local use_colours of thread t's call, loaded once
UseColours(t) == frame[t].use_colours

\* the level name, the message, the location, the colour reset and the line
\* terminator, with the load of include_location
AppendLocation(t) ==
  /\ ~crashed /\ pc[t] = "location"
  /\ pc' = [pc EXCEPT ![t] = "lock"]
  /\ frame' = [frame EXCEPT ![t].log_line =
       @ \o <<" [" \o get_level_name(frame[t].level) \o "] ",
              frame[t].message>>
         \o (IF include_location
             THEN <<LocationPart(FileOf(t), LineOf(t))>> ELSE <<>>)
         \o (IF UseColours(t) THEN <<ColourReset>> ELSE <<>>)
         \o <<"\n">>]
  /\ UNCHANGED <<scenario, build, config, sink, stream_, calls, sets, gets, crashed, last_store,
                 returned>>

\* ---------------------------------------------------------------- the sink
\* an output block that takes no lock
CanLock_unguarded(t) == TRUE

\* std::lock_guard's constructor may take the mutex
CanLock(t) == output_mutex = NoThread

Lock(t) ==
  /\ ~crashed /\ pc[t] = "lock" /\ CanLock(t)
  /\ output_mutex' = t
  /\ pc' = [pc EXCEPT ![t] = "write"]
  /\ frame' = [frame EXCEPT ![t].pos = 1]
  /\ UNCHANGED <<scenario, build, config, cerr_buf, stderr_out, cerr_state, stream_, calls,
                 sets, gets, crashed, last_store, returned>>

\* the chunks i..j of thread t's line, marked with its call
RECURSIVE Chunks(_, _, _)
Chunks(t, i, j) ==
  IF i > j THEN <<>>
  ELSE <<[call |-> CallOf(t), text |-> frame[t].log_line[i]]>>
         \o Chunks(t, i + 1, j)

\* std::cerr << log_line.str(): the characters of the line go into the
\* stream in two parts, the text of the line and then its terminator, or are
\* dropped when the stream is in a failed state
Write(t) ==
  /\ ~crashed /\ pc[t] = "write"
  /\ LET i == frame[t].pos
         n == Len(frame[t].log_line)
         j == IF i < n THEN n - 1 ELSE n
     IN /\ cerr_buf' = IF cerr_state = "good"
                       THEN cerr_buf \o Chunks(t, i, j)
                       ELSE cerr_buf
        /\ pc' = [pc EXCEPT ![t] = IF j = n THEN "flush" ELSE "write"]
        /\ frame' = [frame EXCEPT ![t].pos = j + 1]
  /\ UNCHANGED <<scenario, build, config, output_mutex, stderr_out, cerr_state, stream_, calls,
                 sets, gets, crashed, last_store, returned>>

\* a sink that leaves the line in the stream's buffer
flush_nothing(buf) == <<>>

\* what flush() delivers of the chunks held by the stream
flush(buf) == buf

\* a sink that puts what it delivers in front of what was delivered before
Flush_prepending(t) ==
  /\ ~crashed /\ pc[t] = "flush"
  /\ IF cerr_state = "good"
     THEN /\ stderr_out' = flush(cerr_buf) \o stderr_out
          /\ cerr_buf' = SubSeq(cerr_buf, Len(flush(cerr_buf)) + 1,
                                Len(cerr_buf))
     ELSE UNCHANGED <<stderr_out, cerr_buf>>
  /\ pc' = [pc EXCEPT ![t] = "unlock"]
  /\ UNCHANGED <<scenario, build, config, output_mutex, cerr_state, stream_, frame, calls,
                 sets, gets, crashed, last_store, returned>>

\* std::cerr.flush()
Flush(t) ==
  /\ ~crashed /\ pc[t] = "flush"
  /\ IF cerr_state = "good"
     THEN /\ stderr_out' = stderr_out \o flush(cerr_buf)
          /\ cerr_buf' = SubSeq(cerr_buf, Len(flush(cerr_buf)) + 1,
                                Len(cerr_buf))
     ELSE UNCHANGED <<stderr_out, cerr_buf>>
  /\ pc' = [pc EXCEPT ![t] = "unlock"]
  /\ UNCHANGED <<scenario, build, config, output_mutex, cerr_state, stream_, frame, calls,
                 sets, gets, crashed, last_store, returned>>

\* an unlock that is skipped when the write has failed
Released_unless_failed(t) == IF cerr_state = "bad" THEN t ELSE NoThread

\* the mutex after the lock_guard of thread t is destroyed
Released(t) == NoThread

\* the end of the block: the lock_guard is destroyed and log_impl returns
Unlock(t) ==
  /\ ~crashed /\ pc[t] = "unlock"
  /\ output_mutex' = Released(t)
  /\ pc' = [pc EXCEPT ![t] = "idle"]
  /\ returned' = returned \cup {Return(t, "sink")}
  /\ frame' = [frame EXCEPT ![t] = NoFrame]
  /\ UNCHANGED <<scenario, build, config, cerr_buf, stderr_out, cerr_state, stream_, calls,
                 sets, gets, crashed, last_store>>

\* the environment: the standard error stream stops accepting data (a closed
\* pipe); the stream's badbit is set and stays set
StreamFails ==
  /\ ~crashed /\ cerr_state = "good"
  /\ cerr_state' = "bad"
  /\ UNCHANGED <<scenario, build, config, output_mutex, cerr_buf, stderr_out, stream_, pc,
                 frame, calls, sets, gets, crashed, last_store, returned>>

\* ------------------------------------------------------------ specification
\* a step of the configuration functions
Configure(t) ==
  \/ \E level \in Level : set_level(t, level)
  \/ \E enable \in BOOLEAN : set_include_location(t, enable)
  \/ \E enable \in BOOLEAN : set_include_thread_id(t, enable)
  \/ \E enable \in BOOLEAN : set_use_colours(t, enable)
  \/ get_level(t)
  \/ Resume(t)

\* a step of a thread inside a macro call
Run(t) ==
  \/ EvalArgs(t)
  \/ MacroSkip(t)
  \/ LevelCheck(t)
  \/ FormatMessage(t)
  \/ Catch(t)
  \/ \E now \in ClockValues : AppendThreadId(t, now)
  \/ AppendLocation(t)
  \/ Lock(t)
  \/ Write(t)
  \/ Flush(t)
  \/ Unlock(t)

\* a step of a macro call
Log(t) ==
  \/ \E level \in CallLevels, args \in CallArgs : MacroCheck(t, level, args)
  \/ Run(t)

Next == \E t \in Threads : Configure(t) \/ Log(t)

Spec == Init /\ [][Next]_vars

\* fair scheduling: a thread inside a call that can take a step is not
\* suspended for ever
SpecLive == Spec /\ \A t \in Threads : WF_vars(Run(t))

\* a stress program on a standard error stream that may fail
InitFail == Init /\ scenario = "stress"

NextFail == StreamFails \/ \E t \in Threads : Log(t)

SpecFail == InitFail /\ [][NextFail]_vars

\* a clock program: its threads call format_timestamp and nothing else
InitClock ==
  /\ current_level = INFO
  /\ include_location = FALSE
  /\ include_thread_id = TRUE
  /\ use_colours = TRUE
  /\ output_mutex = NoThread
  /\ cerr_buf = <<>>
  /\ stderr_out = <<>>
  /\ cerr_state = "good"
  /\ stream_ = [t \in Threads |-> ""]
  /\ pc = [t \in Threads |-> "idle"]
  /\ frame = [t \in Threads |-> NoFrame]
  /\ calls = [t \in Threads |-> 0]
  /\ sets = 0
  /\ gets = 0
  /\ crashed = FALSE
  /\ scenario = "clock"
  /\ build \in GetOutcomes
  /\ last_store = [f \in Fields |-> <<>>]
  /\ returned = {}

NextClock ==
  \E t \in Threads :
    \/ \E now \in ClockSamples : call_format_timestamp(t, now)
    \/ Resume(t)

SpecClock == InitClock /\ [][NextClock]_vars

\* a table program: its threads look levels up in the level table and do
\* nothing else
InitTable ==
  /\ current_level = INFO
  /\ include_location = FALSE
  /\ include_thread_id = TRUE
  /\ use_colours = TRUE
  /\ output_mutex = NoThread
  /\ cerr_buf = <<>>
  /\ stderr_out = <<>>
  /\ cerr_state = "good"
  /\ stream_ = [t \in Threads |-> ""]
  /\ pc = [t \in Threads |-> "idle"]
  /\ frame = [t \in Threads |-> NoFrame]
  /\ calls = [t \in Threads |-> 0]
  /\ sets = 0
  /\ gets = 0
  /\ crashed = FALSE
  /\ scenario = "table"
  /\ build \in GetOutcomes
  /\ last_store = [f \in Fields |-> <<>>]
  /\ returned = {}

NextTable ==
  \E t \in Threads :
    \/ \E level \in LevelValues : call_get_colour_code(t, level)
    \/ \E level \in LevelValues : call_get_level_name(t, level)
    \/ Resume(t)

SpecTable == InitTable /\ [][NextTable]_vars

\* ------------------------------------------------------------ properties
\* everything inserted into std::cerr so far, delivered or not
Output == stderr_out \o cerr_buf

\* the number of line terminators among the chunks of call c
RecordCount(out, c) ==
  Cardinality({i \in 1..Len(out) : out[i].call = c /\ out[i].text = "\n"})

\* the number of line terminators in all
NumLines(out) == Cardinality({i \in 1..Len(out) : out[i].text = "\n"})

\* the text of the chunks of call c among the first n chunks, in order
RECURSIVE RecordText(_, _, _)
RecordText(out, c, n) ==
  IF n = 0 THEN ""
  ELSE RecordText(out, c, n - 1)
         \o (IF out[n].call = c THEN out[n].text ELSE "")

\* the names and colours of the severities as the specification lists them
SeverityName(s) == <<"TRACE", "DEBUG", "INFO", "WARN", "ERROR", "FATAL">>[s + 1]
SeverityColour(s) == <<"90", "36", "37", "33", "31", "41;97">>[s + 1]

\* the texts of the message parts, in call order, with no separator
RECURSIVE Concat(_)
Concat(args) ==
  IF args = <<>> THEN "" ELSE ToText(Head(args)) \o Concat(Tail(args))

\* thread t has written its line under a configuration that no setter
\* touched during the call
WroteUntouched(t) ==
  pc[t] = "unlock" /\ frame[t].touched \cap Fields = {}

C2_WrittenIffEnabled ==
  \A r \in returned :
    /\ r.expect = "one" =>
         /\ RecordCount(Output, r.call) = 1
         /\ \E i \in 1..Len(Output) :
              /\ Output[i].call = r.call
              /\ Output[i].text = " [" \o SeverityName(r.level) \o "] "
    /\ r.expect = "none" =>
         \A i \in 1..Len(Output) : Output[i].call # r.call

\* with the minimum level WARN, a WARN call has returned
C2_Witness ==
  /\ current_level = WARN
  /\ \E r \in returned : r.expect = "one" /\ r.level = WARN /\ r.path = "sink"

\* ---- C3
\* C3: the argument expressions of a macro call are evaluated only if the
\* macro's own is_level_enabled check returned true for that call.
C3_NoEvalWhenDisabled ==
  /\ \A t \in Threads : frame[t].evaluated => frame[t].enabled
  /\ \A t \in Threads :
       (pc[t] \notin {"idle", "got", "checked"}) => frame[t].evaluated

\* a call at a disabled severity has made its check and evaluated nothing
C3_Witness ==
  \E t \in Threads :
    pc[t] = "checked" /\ ~frame[t].enabled /\ ~frame[t].evaluated

\* ---- C4
\* all the calls of the program have been made and have returned, each at a
\* severity enabled under a minimum level that did not change meanwhile
AllReturnedEnabled ==
  /\ \A t \in Threads : pc[t] = "idle"
  /\ SumTo(calls, NumThreads) = MaxOps
  /\ Cardinality({r.call : r \in returned}) = MaxOps
  /\ \A r \in returned : r.expect = "one"

ClaimedLine(s, colours, thread, location, ts, tid, msg, file, line) ==
  (IF colours THEN ESC \o SeverityColour(s) \o "m" ELSE "")
    \o "[" \o ts \o "]"
    \o (IF thread THEN "[" \o tid \o "]" ELSE "")
    \o " [" \o SeverityName(s) \o "] "
    \o msg
    \o (IF location THEN " (" \o file \o ":" \o ToString(line) \o ")" ELSE "")
    \o (IF colours THEN ESC \o "0m" ELSE "")
    \o "\n"

\* the same line with one space between the timestamp bracket and the thread
\* id bracket
AmendedLine(s, colours, thread, location, ts, tid, msg, file, line) ==
  (IF colours THEN ESC \o SeverityColour(s) \o "m" ELSE "")
    \o "[" \o ts \o "]"
    \o (IF thread THEN " [" \o tid \o "]" ELSE "")
    \o " [" \o SeverityName(s) \o "] "
    \o msg
    \o (IF location THEN " (" \o file \o ":" \o ToString(line) \o ")" ELSE "")
    \o (IF colours THEN ESC \o "0m" ELSE "")
    \o "\n"

C6_LockReleasedOnFailure ==
  /\ \A t \in Threads : output_mutex = t => pc[t] \in CriticalSection
  /\ \A t \in Threads :
       pc[t] = "threw" => \E i \in 1..Len(frame[t].args) :
                            frame[t].args[i].kind = "bad"
  /\ \A t \in Threads :
       ( /\ ~crashed /\ pc[t] = "lock"
         /\ \A u \in Threads : pc[u] \notin CriticalSection )
         => ENABLED Lock(t)

\* a call has returned from the sink with its record lost to the failed
\* stream, and another thread has taken the mutex since
C6_Witness ==
  /\ cerr_state = "bad"
  /\ \E r \in returned : r.path = "sink" /\ RecordCount(Output, r.call) = 0
  /\ \E t \in Threads : pc[t] = "write" /\ output_mutex = t

\* ---- C7
\* C7: no failure of a log call surfaces in the caller: no thread is ever
\* unwinding an exception thrown out of a macro call.
C7_NoErrorSurfaces == \A t \in Threads : pc[t] # "threw"

\* ---- C8
\* C8: a thread that is not inside a call can make every configuration call
\* (the four setters, get_level, and the is_level_enabled check of a macro)
\* in every state, whoever holds output_mutex; each is one step.
C8_ConfigNeverBlocks ==
  \A t \in Threads :
    (~crashed /\ pc[t] = "idle") =>
      /\ (scenario = "levels" /\ MayCall) =>
           \A level \in Level : ENABLED set_level(t, level)
      /\ (scenario = "format" /\ MayCall) =>
           \A enable \in BOOLEAN :
             /\ ENABLED set_include_location(t, enable)
             /\ ENABLED set_include_thread_id(t, enable)
             /\ ENABLED set_use_colours(t, enable)
      /\ (scenario = "levels" /\ MayCall) => ENABLED get_level(t)
      /\ MayCall =>
           \A level \in CallLevels, args \in CallArgs :
             ENABLED MacroCheck(t, level, args)

\* a setter has run while another thread held output_mutex in its write
C8_Witness ==
  \E u \in Threads :
    "locked" \in frame[u].touched /\ pc[u] = "write" /\ output_mutex = u

\* ---- C9
\* the value of a field of State, and its default
Field(f) ==
  CASE f = "current_level" -> current_level
    [] f = "include_location" -> include_location
    [] f = "include_thread_id" -> include_thread_id
    [] f = "use_colours" -> use_colours

InitialValue(f) ==
  CASE f = "current_level" -> INFO
    [] f = "include_location" -> FALSE
    [] f = "include_thread_id" -> TRUE
    [] f = "use_colours" -> TRUE

LatestStore(f) ==
  IF last_store[f] = <<>> THEN InitialValue(f) ELSE last_store[f][1]

\* C9: a setter call leaves its own field at the value it was given and
\* changes no other field and nothing of the output; every field always
\* holds its default or the value of the latest store to it, and that is
\* what get_level returns.
C9_SettersFrame ==
  [][ /\ sets' # sets =>
           \E f \in Fields :
             /\ \A g \in Fields \ {f} :
                  Field(g)' = Field(g) /\ last_store'[g] = last_store[g]
             /\ last_store'[f] # <<>>
             /\ Field(f)' = last_store'[f][1]
             /\ UNCHANGED <<cerr_buf, stderr_out, output_mutex>>
      /\ \A f \in Fields : Field(f)' = LatestStore(f)'
      /\ \A t \in Threads :
           (pc[t] = "idle" /\ pc'[t] = "got") =>
             frame'[t].ret = LatestStore("current_level")
    ]_vars

\* set_level has been called and get_level has returned the level it stored
C9_Witness ==
  /\ scenario = "levels" /\ sets >= 1
  /\ \E t \in Threads : pc[t] = "got" /\ frame[t].ret = WARN

\* ---- C10
\* C10: the complete record of every call that has returned from the sink, or
\* that was enabled throughout, has been delivered to the standard error
\* stream: none of its chunks is still held by the stream.
C10_FlushedOnReturn ==
  \A r \in returned :
    (r.path = "sink" \/ r.expect = "one") =>
      /\ RecordCount(stderr_out, r.call) = 1
      /\ \A i \in 1..Len(cerr_buf) : cerr_buf[i].call # r.call

\* a call has returned while another thread's line is being written
C10_Witness ==
  /\ \E r \in returned : r.path = "sink"
  /\ cerr_buf # <<>>

\* ---- C11
\* C11: under fair scheduling every macro call that a thread has started
\* eventually gives control back to its caller.
C11_CallsReturn ==
  \A t \in Threads : (pc[t] = "checked") ~> (pc[t] = "idle")

\* ---- C12
\* the chunks of call c in the output, in order
RecordChunks(out, c) ==
  LET OfCall(x) == x.call = c
  IN SelectSeq(out, OfCall)

\* the ANSI escape sequences the formatter can write
Escapes == {ESC \o SeverityColour(s) \o "m" : s \in Level} \cup {ESC \o "0m"}

\* the record of call c has no escape sequence
NoEscape(out, c) ==
  \A i \in 1..Len(out) : out[i].call = c => out[i].text \notin Escapes

\* the record of call c ends with the location suffix of thread t's call site
\* (followed only by the line terminator, or by the colour reset and the
\* line terminator)
EndsWithLocation(out, c, t) ==
  LET rec == RecordChunks(out, c)
      n == Len(rec)
      suffix == " (" \o FileOf(t) \o ":" \o ToString(LineOf(t)) \o ")"
  IN /\ n >= 2 /\ rec[n].text = "\n"
     /\ \/ rec[n - 1].text = suffix
        \/ n >= 3 /\ rec[n - 1].text = ESC \o "0m" /\ rec[n - 2].text = suffix

\* C12 as claimed: once set_use_colours(false) is the latest store to
\* use_colours, every line written from then on has no escape sequence, and
\* once set_include_location(true) is the latest store to include_location,
\* every line written from then on ends with the suffix of its call site; a
\* thread that holds the mutex and has written nothing yet writes its line
\* from then on.
C12_TogglesAsClaimed ==
  \A t \in Threads :
    (pc[t] = "write" /\ frame[t].pos = 1) =>
      /\ last_store["use_colours"] = <<FALSE>> =>
           \A i \in 1..Len(frame[t].log_line) :
             frame[t].log_line[i] \notin Escapes
      /\ last_store["include_location"] = <<TRUE>> =>
           \E i \in 1..Len(frame[t].log_line) :
             frame[t].log_line[i] =
               " (" \o FileOf(t) \o ":" \o ToString(LineOf(t)) \o ")"

\* C12 amended: the line of a call that started after the latest store to
\* use_colours, a set_use_colours(false), has no escape sequence, and the
\* line of a call that started after the latest store to include_location,
\* a set_include_location(true), ends with the suffix of its call site.
C12_TogglesApply ==
  \A t \in Threads :
    pc[t] = "unlock" =>
      /\ ( /\ last_store["use_colours"] = <<FALSE>>
           /\ "use_colours" \notin frame[t].touched )
           => NoEscape(Output, CallOf(t))
      /\ ( /\ last_store["include_location"] = <<TRUE>>
           /\ "include_location" \notin frame[t].touched )
           => EndsWithLocation(Output, CallOf(t), t)

\* a call made after set_use_colours(false) and set_include_location(true)
\* has written its line
C12_Witness ==
  \E t \in Threads :
    /\ pc[t] = "unlock"
    /\ last_store["use_colours"] = <<FALSE>>
    /\ last_store["include_location"] = <<TRUE>>
    /\ frame[t].touched = {}
    /\ RecordCount(Output, CallOf(t)) = 1

\* ---- C13
\* the line of an INFO-or-above call under the default configuration: colour
\* codes and a thread id, no location suffix
DefaultLine(s, ts, tid, msg) ==
  <<ESC \o SeverityColour(s) \o "m", "[" \o ts \o "]", " [" \o tid \o "]",
    " [" \o SeverityName(s) \o "] ", msg, ESC \o "0m", "\n">>

\* C13: as long as no setter has been called the configuration is INFO,
\* thread id on, location off, colours on; a call that has returned has
\* written one record if its severity is INFO, WARN, ERROR or FATAL and
\* nothing if it is TRACE or DEBUG; and a written line has the colour codes
\* and the thread id and no location suffix.
C13_Defaults ==
  sets = 0 =>
    /\ current_level = INFO /\ include_thread_id
    /\ ~include_location /\ use_colours
    /\ \A r \in returned :
         IF r.level \in {INFO, WARN, ERROR, FATAL}
         THEN RecordCount(Output, r.call) = 1
         ELSE \A i \in 1..Len(Output) : Output[i].call # r.call
    /\ \A t \in Threads :
         pc[t] = "unlock" =>
           \E now \in ClockValues :
             LET rec == RecordChunks(Output, CallOf(t))
             IN [i \in 1..Len(rec) |-> rec[i].text] =
                  DefaultLine(frame[t].level, format_timestamp(now),
                              get_thread_id(t), frame[t].message)

\* with no setter called, an ERROR call has been written and a DEBUG call
\* has returned
C13_Witness ==
  /\ sets = 0
  /\ \E r \in returned : r.level = ERROR /\ r.path = "sink"
  /\ \E r \in returned : r.level = DEBUG

\* ---- C14
\* the message segment of the record of call c: the chunk that follows the
\* level name
MessageSegments(out, c, s) ==
  LET rec == RecordChunks(out, c)
  IN {rec[i + 1].text :
        i \in {j \in 1..(Len(rec) - 1) :
                 rec[j].text = " [" \o SeverityName(s) \o "] "}}

\* C14: the message segment of every written record is the concatenation,
\* in call order and with no separator, of the texts of the message parts
\* of the call that produced it, and of nothing else.
C14_MessageIsConcat ==
  \A t \in Threads :
    pc[t] = "unlock" =>
      MessageSegments(Output, CallOf(t), frame[t].level)
        = {Concat(frame[t].args)}

\* ---- C15
\* the decimal digits
Digits == <<"0", "1", "2", "3", "4", "5", "6", "7", "8", "9">>

\* the character at position i of a string
CharAt(str, i) == SubSeq(str, i, i)

IsDigit(c) == \E d \in 1..10 : Digits[d] = c

\* C15: the string format_timestamp yields for a clock value has the fixed
\* form 'YYYY-MM-DD HH:MM:SS.mmm' (23 characters, digits everywhere but at
\* the separators), and mmm is the three decimal digits of (milliseconds
\* since the epoch) mod 1000, a value in 0..999.
C15_TimestampForm ==
  \A t \in Threads :
    (scenario = "clock" /\ pc[t] = "got") =>
      LET ts == frame[t].message
          ms == frame[t].now % 1000
      IN /\ Len(ts) = 23
         /\ CharAt(ts, 5) = "-" /\ CharAt(ts, 8) = "-"
         /\ CharAt(ts, 11) = " "
         /\ CharAt(ts, 14) = ":" /\ CharAt(ts, 17) = ":"
         /\ CharAt(ts, 20) = "."
         /\ \A i \in (1..23) \ {5, 8, 11, 14, 17, 20} :
              IsDigit(CharAt(ts, i))
         /\ ms \in 0..999
         /\ CharAt(ts, 21) = Digits[(ms \div 100) + 1]
         /\ CharAt(ts, 22) = Digits[((ms \div 10) % 10) + 1]
         /\ CharAt(ts, 23) = Digits[(ms % 10) + 1]

\* format_timestamp has returned for a clock value whose millisecond field
\* needs two fill characters, and for one that needs none
C15_Witness ==
  \E t, u \in Threads :
    /\ scenario = "clock" /\ pc[t] = "got" /\ pc[u] = "got"
    /\ frame[t].now % 1000 = 7
    /\ frame[u].now % 1000 = 999

\* ---- C16
\* the positions of a thread that is formatting its line
Formatting == {"log_impl", "format", "thread_id", "location"}

PartsPresent(out, c, t) ==
  LET texts == {out[i].text : i \in {j \in 1..Len(out) : out[j].call = c}}
  IN <<texts \cap Escapes # {},
       (" [" \o get_thread_id(t) \o "]") \in texts,
       (" (" \o FileOf(t) \o ":" \o ToString(LineOf(t)) \o ")") \in texts>>

\* C17: the optional parts of every written line are those of one
\* configuration: (colours, thread id, location) equals the values that
\* use_colours, include_thread_id and include_location held together at
\* some instant of the call.
C17_OneSnapshot ==
  \A t \in Threads :
    pc[t] = "unlock" =>
      PartsPresent(Output, CallOf(t), t) \in frame[t].snapshots

\* ---- C18
\* C18: the minimum level is read once by the macro and once more by
\* log_impl.  A call enters log_impl only if its severity was at or above
\* the minimum the macro read, and with its arguments evaluated; it goes on
\* to format and write only if its severity is also at or above the minimum
\* log_impl reads; if that one is above its severity the call returns with
\* its arguments evaluated and nothing written.
C18_BothChecks ==
  [][ \A t \in Threads :
        /\ (pc[t] = "checked" /\ pc'[t] = "log_impl") =>
             frame[t].enabled /\ frame'[t].evaluated
        /\ (pc[t] = "log_impl" /\ pc'[t] # "log_impl") =>
             /\ frame[t].enabled /\ frame[t].evaluated
             /\ IF frame[t].level >= current_level
                THEN pc'[t] = "format"
                ELSE /\ pc'[t] = "idle"
                     /\ UNCHANGED <<cerr_buf, stderr_out>>
                     /\ \A i \in 1..Len(Output) :
                          Output[i].call # CallOf(t)
                     /\ \E r \in returned' :
                          r.call = CallOf(t) /\ r.path = "early"
        /\ (Len(cerr_buf') > Len(cerr_buf)) =>
             \A i \in (Len(cerr_buf) + 1)..Len(cerr_buf') :
               LET u == cerr_buf'[i].call[1]
               IN pc[u] = "write" /\ frame[u].enabled
    ]_vars

\* a call that passed the macro's check has returned from log_impl's early
\* exit, the minimum having been raised in between, and wrote nothing
C18_Witness ==
  \E r \in returned :
    /\ r.path = "early"
    /\ r.level < current_level
    /\ \A i \in 1..Len(Output) : Output[i].call # r.call

\* ---- C19
\* C19: every written line either begins with the colour-start sequence of
\* its own severity, ends (before the line terminator) with the colour-reset
\* sequence and has no other escape sequence, or has no escape sequence at
\* all, whatever set_use_colours calls run during the call.
C19_ColoursPaired ==
  \A t \in Threads :
    pc[t] = "unlock" =>
      LET rec == RecordChunks(Output, CallOf(t))
          n == Len(rec)
      IN \/ NoEscape(Output, CallOf(t))
         \/ /\ n >= 3
            /\ rec[1].text = ESC \o SeverityColour(frame[t].level) \o "m"
            /\ rec[n - 1].text = ESC \o "0m"
            /\ rec[n].text = "\n"
            /\ \A i \in 2..(n - 2) : rec[i].text \notin Escapes

\* a line has been written by a call during which set_use_colours changed
\* use_colours
C19_Witness ==
  \E t \in Threads :
    /\ pc[t] = "unlock"
    /\ "use_colours" \in frame[t].touched
    /\ use_colours # frame[t].use_colours
    /\ RecordCount(Output, CallOf(t)) = 1

\* ---- C20
\* C20: the records of one thread stand in the output in the order of its
\* calls: of two chunks of the same thread, the earlier one in the output
\* does not belong to the later call.
C20_ThreadOrder ==
  \A i \in 1..Len(Output), j \in 1..Len(Output) :
    (i < j /\ Output[i].call[1] = Output[j].call[1])
      => Output[i].call[2] <= Output[j].call[2]

\* a thread has written two records and another thread's record stands
\* between them
C20_Witness ==
  \E i, j, k \in 1..Len(Output) :
    /\ i < j /\ j < k
    /\ Output[i].text = "\n" /\ Output[j].text = "\n" /\ Output[k].text = "\n"
    /\ Output[i].call[1] = Output[k].call[1]
    /\ Output[i].call[2] < Output[k].call[2]
    /\ Output[j].call[1] # Output[i].call[1]

\* ---- C21
\* the level table as the specification lists it, with its fallbacks
TableName(v) == IF v \in 0..5 THEN SeverityName(v) ELSE "UNKNOWN"
TableColour(v) == IF v \in 0..5 THEN SeverityColour(v) ELSE "37"

\* C21: for every value of a Level, get_level_name yields the listed name
\* of an enumerator and 'UNKNOWN' for any other value, and get_colour_code
\* yields the listed colour code of an enumerator and '37' for any other
\* value.
C21_LevelTable ==
  \A t \in Threads :
    (scenario = "table" /\ pc[t] = "got") =>
      IF frame[t].log_line = <<>>
      THEN frame[t].message = TableName(frame[t].level)
      ELSE frame[t].log_line = <<TableColour(frame[t].level)>>

\* get_level_name has returned for a value outside the enumeration and
\* get_colour_code for FATAL
C21_Witness ==
  \E t, u \in Threads :
    /\ scenario = "table" /\ pc[t] = "got" /\ pc[u] = "got"
    /\ frame[t].level \notin Level /\ frame[t].log_line = <<>>
    /\ frame[u].level = FATAL /\ frame[u].log_line # <<>>

====
